---- MODULE Spec2Model ----
(***************************************************************************)
(* Verification model of the jud-attendance-app camera components.         *)
(*                                                                         *)
(*   Spec / FairSpec : CameraComponent of src/components/camera.tsx        *)
(*   CropSpec        : the cropped-face variant, src/unnamed/part_001      *)
(*   DrawSpec        : the overlay geometry of camera.tsx detectFaces      *)
(*                                                                         *)
(* React is modelled at the granularity of its event loop: one action is   *)
(* one task (a click handler, the resumption of an async function after an *)
(* await, a timer or animation-frame callback) together with the render    *)
(* React commits for it and the effects that render re-runs.               *)
(* Numbers are exact rationals <<n, d>>; floating-point rounding and the   *)
(* text of frameCount inside debugInfo are not modelled.                   *)
(***************************************************************************)
EXTENDS Integers, Sequences, FiniteSets, TLC

\* ---------------------------------------------------------------- bounds
MaxStreams == 2      \* startCamera calls (streams requested) per run
MaxRaf == 2          \* animation-frame callbacks / frame-born inferences alive
MaxCalls == 2        \* part_001: detectFaces invocations in flight or waiting for a frame
CfMaxStarts == 1     \* part_001: startCamera calls per run

\* ------------------------------------------------------------- constants
NULL == "null"
LOADED == "BlazeFaceModel"
HAVE_NOTHING == 0
HAVE_METADATA == 1
HAVE_ENOUGH_DATA == 4
CameraError == "Failed to access the camera. Please make sure you have given permission."
ModelError == "Failed to load the face detection model."
DetectError == "Face detection failed. Please try again."

VARIABLES
  \* React state of CameraComponent
  isStreaming, error, model, isLoading, predictions, debugInfo,
  \* loadModel: position of the single call made by the mount effect
  loadPc,
  \* video element and media streams
  srcObject,     \* 0 = null, otherwise the id of the attached stream
  liveTracks,    \* ids of the streams whose tracks have not been stopped
  nStreams,      \* streams handed out by getUserMedia so far
  gumPending,    \* startCamera calls awaiting getUserMedia
  nStarts,       \* startCamera calls made so far
  readyState,    \* video.readyState
  \* canvas
  overlay,       \* shapes on the canvas, in drawing order
  \* detection loop
  chain,         \* per effect instance: position of its runDetection chain
  effect,        \* chain of the effect instance now mounted, 0 if it started none
  nEffects,      \* runDetection chains started so far
  rafPending,    \* requestAnimationFrame(detectFaces) callbacks pending
  rafInflight,   \* detectFaces calls started by a frame callback, awaiting estimateFaces
  \* history
  stopped,       \* stopCamera ran and no startCamera code has run since
  lastOp,        \* the task that ran last
  \* overlay geometry harness
  drawArgs, drawn,
  \* cropped-face variant (src/unnamed/part_001): its React state ...
  cfIsStreaming, cfError, blazefaceModel, landmarkModel, cfIsLoading,
  cfPredictions, croppedFaces, cfDebugInfo,
  cfLoadPc,       \* position of loadModels
  \* ... its video element and streams ...
  cfSrcObject, cfLiveTracks, cfNStreams, cfGumPending, cfNStarts, cfReadyState,
  cfOverlay,
  \* ... and its detection loop
  cfTimer,        \* the mounted effect instance has a setTimeout(runDetection) pending
  cfRafPending,   \* requestAnimationFrame(detectFaces) callbacks pending
  cfCalls,        \* detectFaces invocations suspended at an await, oldest first
  cfLastOp,
  \* FaceDetectionComponent (src/components/face-detection-component.tsx)
  fdIsStreaming, fdError, faceDescriptors,
  fdLoadPc,       \* position of loadModels
  fdSrcObject, fdLiveTracks, fdNStreams, fdGumPending, fdNStarts,
  fdOverlay,
  fdChain,        \* per effect instance: position of its detectFaces chain
  fdEffect,       \* chain of the effect instance now mounted, 0 if none
  fdNEffects,     \* detectFaces chains started so far
  fdLastOp

camVars == <<isStreaming, error, model, isLoading, predictions, debugInfo, loadPc,
             srcObject, liveTracks, nStreams, gumPending, nStarts, readyState,
             overlay, chain, effect, nEffects, rafPending, rafInflight,
             stopped, lastOp>>
drawVars == <<drawArgs, drawn>>
cfVars == <<cfIsStreaming, cfError, blazefaceModel, landmarkModel, cfIsLoading,
            cfPredictions, croppedFaces, cfDebugInfo, cfLoadPc, cfSrcObject,
            cfLiveTracks, cfNStreams, cfGumPending, cfNStarts, cfReadyState,
            cfOverlay, cfTimer, cfRafPending, cfCalls, cfLastOp>>
fdVars == <<fdIsStreaming, fdError, faceDescriptors, fdLoadPc, fdSrcObject,
            fdLiveTracks, fdNStreams, fdGumPending, fdNStarts, fdOverlay,
            fdChain, fdEffect, fdNEffects, fdLastOp>>
vars == <<camVars, drawVars, cfVars, fdVars>>
notCamVars == <<drawVars, cfVars, fdVars>>
notCfVars == <<camVars, drawVars, fdVars>>
notFdVars == <<camVars, drawVars, cfVars>>

\* ------------------------------------------------------ exact arithmetic
Abs(i) == IF i < 0 THEN -i ELSE i

RECURSIVE Gcd(_, _)
Gcd(a, b) == IF b = 0 THEN a ELSE Gcd(b, a % b)

\* the rational n/d in lowest terms, d > 0
Rat(n, d) ==
  LET g == Gcd(Abs(n), Abs(d))
      s == IF d < 0 THEN -1 ELSE 1
  IN  <<(s * n) \div g, (s * d) \div g>>

Times(i, q) == Rat(i * q[1], q[2])

\* ------------------------------------------------------ overlay geometry
\* mutation: the X factor applied to both axes
DrawFace_UniformScale(face, scaleX, scaleY) ==
  LET x == face.topLeft[1]
      y == face.topLeft[2]
      width == face.bottomRight[1] - face.topLeft[1]
      height == face.bottomRight[2] - face.topLeft[2]
  IN  <<[shape |-> "strokeRect", x |-> Times(x, scaleX), y |-> Times(y, scaleX),
         w |-> Times(width, scaleX), h |-> Times(height, scaleX)]>>
      \o [i \in 1..Len(face.landmarks) |->
            [shape |-> "arc", x |-> Times(face.landmarks[i][1], scaleX),
             y |-> Times(face.landmarks[i][2], scaleX), r |-> 3]]

\* camera.tsx 107-123, the body of predictions.forEach for one face
DrawFace(face, scaleX, scaleY) ==
  LET x == face.topLeft[1]
      y == face.topLeft[2]
      width == face.bottomRight[1] - face.topLeft[1]
      height == face.bottomRight[2] - face.topLeft[2]
  IN  <<[shape |-> "strokeRect", x |-> Times(x, scaleX), y |-> Times(y, scaleY),
         w |-> Times(width, scaleX), h |-> Times(height, scaleY)]>>
      \o [i \in 1..Len(face.landmarks) |->
            [shape |-> "arc", x |-> Times(face.landmarks[i][1], scaleX),
             y |-> Times(face.landmarks[i][2], scaleY), r |-> 3]]

RECURSIVE DrawFaces(_, _, _)
DrawFaces(faces, scaleX, scaleY) ==
  IF faces = <<>> THEN <<>>
  ELSE DrawFace(Head(faces), scaleX, scaleY) \o DrawFaces(Tail(faces), scaleX, scaleY)

\* camera.tsx 88-90
ScaleX(clientWidth, videoWidth) == Rat(clientWidth, videoWidth)
ScaleY(clientHeight, videoHeight) == Rat(clientHeight, videoHeight)

\* ------------------------------------------- what the model can return
FaceA == [topLeft |-> <<100, 100>>, bottomRight |-> <<200, 200>>,
          landmarks |-> <<<<130, 140>>, <<170, 140>>>>]
FaceB == [topLeft |-> <<300, 60>>, bottomRight |-> <<420, 240>>,
          landmarks |-> <<<<360, 150>>>>]
\* (no face, or two faces: a face that is first and a face that is not)
Results == {<<>>, <<FaceA, FaceB>>}

\* geometry of the mounted video element in Spec
ClientWidth == 320
ClientHeight == 240
VideoWidth == 640
VideoHeight == 480

EmptyDebug == [kind |-> "", raw |-> <<>>]
FrameDebug(preds) == [kind |-> "Frame", raw |-> preds]
ErrorDebug == [kind |-> "Error", raw |-> <<>>]

Streams == 1..MaxStreams

\* ============================================================ camera.tsx
CamInit ==
  /\ isStreaming = FALSE
  /\ error = NULL
  /\ model = NULL
  /\ isLoading = TRUE
  /\ predictions = <<>>
  /\ debugInfo = EmptyDebug
  /\ loadPc = "setBackend"
  /\ srcObject = 0
  /\ liveTracks = {}
  /\ nStreams = 0
  /\ gumPending = 0
  /\ nStarts = 0
  /\ readyState = HAVE_NOTHING
  /\ overlay = <<>>
  /\ chain = [c \in Streams |-> "none"]
  /\ effect = 0
  /\ nEffects = 0
  /\ rafPending = 0
  /\ rafInflight = 0
  /\ stopped = FALSE
  /\ lastOp = "mount"

NotDrawn == [done |-> FALSE, shapes |-> <<>>]

DrawIdle ==
  /\ drawArgs = [clientWidth |-> ClientWidth, clientHeight |-> ClientHeight,
                 videoWidth |-> VideoWidth, videoHeight |-> VideoHeight,
                 preds |-> <<>>]
  /\ drawn = NotDrawn



\* ---- detection loop --------------------------------------------------
\* mutation: detectFaces returns on an unready video without asking for an
\* animation frame
RunDetection_NoRetry(base, c, rs) ==
  IF rs = HAVE_ENOUGH_DATA
  THEN /\ chain' = [base EXCEPT ![c] = "await"]
       /\ overlay' = <<>>
       /\ rafPending' = rafPending
  ELSE /\ chain' = [base EXCEPT ![c] = "timer"]
       /\ rafPending' = rafPending
       /\ overlay' = overlay

\* runDetection (143-146) from its call to its first suspension, through the
\* synchronous part of detectFaces (70-94): either the video is not ready,
\* detectFaces asks for an animation frame and returns, and runDetection
\* arms its timer; or the canvas is resized (which clears it) and
\* model.estimateFaces is called and awaited.
RunDetection(base, c, rs) ==
  IF rs = HAVE_ENOUGH_DATA
  THEN /\ chain' = [base EXCEPT ![c] = "await"]
       /\ overlay' = <<>>
       /\ rafPending' = rafPending
  ELSE /\ rafPending + rafInflight < MaxRaf
       /\ chain' = [base EXCEPT ![c] = "timer"]
       /\ rafPending' = rafPending + 1
       /\ overlay' = overlay

\* cleanup of the mounted effect instance (152-156): clearTimeout(timeoutId)
\* cancels the timer only if that instance's timer is the thing pending
EffectCleanup ==
  IF effect # 0 /\ chain[effect] = "timer"
  THEN [chain EXCEPT ![effect] = "cleared"]
  ELSE chain

\* useEffect(..., [isStreaming, model]) (140-157) re-run after a render in
\* which isStreaming or model changed to ns, nm
DetectionEffect(ns, nm, rs) ==
  IF ns /\ nm # NULL
  THEN /\ effect' = nEffects + 1
       /\ nEffects' = nEffects + 1
       /\ RunDetection(EffectCleanup, nEffects + 1, rs)
  ELSE /\ effect' = 0
       /\ nEffects' = nEffects
       /\ chain' = EffectCleanup
       /\ UNCHANGED <<rafPending, overlay>>

loopVars == <<chain, effect, nEffects, rafPending, overlay>>
mediaVars == <<srcObject, liveTracks, nStreams, readyState>>

\* ---- loadModel (55-66), called once by the mount effect (133-138) -----
SetBackendDone ==
  /\ loadPc = "setBackend"
  /\ loadPc' = "load"
  /\ lastOp' = "setBackend"
  /\ UNCHANGED <<isStreaming, error, model, isLoading, predictions, debugInfo,
                 mediaVars, gumPending, nStarts, loopVars, rafInflight, stopped>>
  /\ UNCHANGED notCamVars

LoadModelDone ==
  /\ loadPc = "load"
  /\ loadPc' = "done"
  /\ model' = LOADED
  /\ isLoading' = FALSE
  /\ DetectionEffect(isStreaming, LOADED, readyState)
  /\ lastOp' = "loadModel"
  /\ UNCHANGED <<isStreaming, error, predictions, debugInfo, mediaVars,
                 gumPending, nStarts, rafInflight, stopped>>
  /\ UNCHANGED notCamVars

\* mutation: the catch block forgets setIsLoading(false)
LoadModelFail_KeepsLoading ==
  /\ loadPc \in {"setBackend", "load"}
  /\ loadPc' = "failed"
  /\ error' = ModelError
  /\ lastOp' = "loadModelFailed"
  /\ UNCHANGED <<isStreaming, model, isLoading, predictions, debugInfo, mediaVars,
                 gumPending, nStarts, loopVars, rafInflight, stopped>>
  /\ UNCHANGED notCamVars

LoadModelFail ==
  /\ loadPc \in {"setBackend", "load"}
  /\ loadPc' = "failed"
  /\ error' = ModelError
  /\ isLoading' = FALSE
  /\ lastOp' = "loadModelFailed"
  /\ UNCHANGED <<isStreaming, model, predictions, debugInfo, mediaVars,
                 gumPending, nStarts, loopVars, rafInflight, stopped>>
  /\ UNCHANGED notCamVars

\* ---- startCamera (26-42) ---------------------------------------------
\* the Start button (199) up to the await of getUserMedia
StartCamera ==
  /\ ~isStreaming /\ ~isLoading
  /\ nStarts < MaxStreams
  /\ nStarts' = nStarts + 1
  /\ gumPending' = gumPending + 1
  /\ stopped' = FALSE
  /\ lastOp' = "startCamera"
  /\ UNCHANGED <<isStreaming, error, model, isLoading, predictions, debugInfo,
                 loadPc, mediaVars, loopVars, rafInflight>>
  /\ UNCHANGED notCamVars

\* getUserMedia resolves (29-36): a fresh stream replaces whatever is attached
GetUserMediaGranted ==
  /\ gumPending > 0
  /\ gumPending' = gumPending - 1
  /\ nStreams' = nStreams + 1
  /\ liveTracks' = liveTracks \cup {nStreams + 1}
  /\ srcObject' = nStreams + 1
  /\ readyState' = HAVE_NOTHING
  /\ error' = NULL
  /\ stopped' = FALSE
  /\ lastOp' = "granted"
  /\ UNCHANGED <<isStreaming, model, isLoading, predictions, debugInfo, loadPc,
                 nStarts, loopVars, rafInflight>>
  /\ UNCHANGED notCamVars

\* getUserMedia rejects (37-41)
GetUserMediaRejected ==
  /\ gumPending > 0
  /\ gumPending' = gumPending - 1
  /\ error' = CameraError
  /\ isLoading' = FALSE
  /\ stopped' = FALSE
  /\ lastOp' = "rejected"
  /\ UNCHANGED <<isStreaming, model, predictions, debugInfo, loadPc, mediaVars,
                 nStarts, loopVars, rafInflight>>
  /\ UNCHANGED notCamVars

\* video.onloadedmetadata (31-34); the element may already hold enough data
\* when the handler runs
LoadedMetadata ==
  /\ srcObject # 0
  /\ readyState = HAVE_NOTHING
  /\ \E rs \in {HAVE_METADATA, HAVE_ENOUGH_DATA} :
       /\ readyState' = rs
       /\ isStreaming' = TRUE
       /\ IF isStreaming
          THEN UNCHANGED loopVars
          ELSE DetectionEffect(TRUE, model, rs)
  /\ lastOp' = "loadedmetadata"
  /\ UNCHANGED <<error, model, isLoading, predictions, debugInfo, loadPc,
                 srcObject, liveTracks, nStreams, gumPending, nStarts,
                 rafInflight, stopped>>
  /\ UNCHANGED notCamVars

\* the browser buffers the stream
VideoBuffered ==
  /\ srcObject # 0
  /\ readyState = HAVE_METADATA
  /\ readyState' = HAVE_ENOUGH_DATA
  /\ lastOp' = "buffered"
  /\ UNCHANGED <<isStreaming, error, model, isLoading, predictions, debugInfo,
                 loadPc, srcObject, liveTracks, nStreams, gumPending, nStarts,
                 loopVars, rafInflight, stopped>>
  /\ UNCHANGED notCamVars

\* ---- stopCamera (44-53), the Stop button (202) ------------------------
\* mutation: stopCamera also drops the model (setModel(null))
StopCamera_ResetsModel ==
  /\ isStreaming /\ ~isLoading
  /\ IF srcObject # 0
     THEN /\ liveTracks' = liveTracks \ {srcObject}
          /\ srcObject' = 0
          /\ readyState' = HAVE_NOTHING
          /\ isStreaming' = FALSE
          /\ predictions' = <<>>
          /\ debugInfo' = EmptyDebug
          /\ DetectionEffect(FALSE, NULL, HAVE_NOTHING)
     ELSE UNCHANGED <<liveTracks, srcObject, readyState, isStreaming,
                      predictions, debugInfo, loopVars>>
  /\ model' = NULL
  /\ stopped' = TRUE
  /\ lastOp' = "stopCamera"
  /\ UNCHANGED <<error, isLoading, loadPc, nStreams, gumPending,
                 nStarts, rafInflight>>
  /\ UNCHANGED notCamVars

StopCamera ==
  /\ isStreaming /\ ~isLoading
  /\ IF srcObject # 0
     THEN /\ liveTracks' = liveTracks \ {srcObject}
          /\ srcObject' = 0
          /\ readyState' = HAVE_NOTHING
          /\ isStreaming' = FALSE
          /\ predictions' = <<>>
          /\ debugInfo' = EmptyDebug
          /\ DetectionEffect(FALSE, model, HAVE_NOTHING)
     ELSE UNCHANGED <<liveTracks, srcObject, readyState, isStreaming,
                      predictions, debugInfo, loopVars>>
  /\ stopped' = TRUE
  /\ lastOp' = "stopCamera"
  /\ UNCHANGED <<error, model, isLoading, loadPc, nStreams, gumPending,
                 nStarts, rafInflight>>
  /\ UNCHANGED notCamVars

\* ---- callbacks of the detection loop ---------------------------------
\* setTimeout(runDetection, 100) fires (145)
TimerFires(c) ==
  /\ chain[c] = "timer"
  /\ RunDetection(chain, c, readyState)
  /\ lastOp' = "runDetection"
  /\ UNCHANGED <<isStreaming, error, model, isLoading, predictions, debugInfo,
                 loadPc, mediaVars, gumPending, nStarts, effect, nEffects,
                 rafInflight, stopped>>
  /\ UNCHANGED notCamVars

\* requestAnimationFrame(detectFaces) fires (80): detectFaces runs on its own,
\* with no runDetection behind it
RafFires ==
  /\ rafPending > 0
  /\ IF readyState = HAVE_ENOUGH_DATA
     THEN /\ rafPending' = rafPending - 1
          /\ rafInflight' = rafInflight + 1
          /\ overlay' = <<>>
     ELSE UNCHANGED <<rafPending, rafInflight, overlay>>
  /\ lastOp' = "rafDetectFaces"
  /\ UNCHANGED <<isStreaming, error, model, isLoading, predictions, debugInfo,
                 loadPc, mediaVars, gumPending, nStarts, chain, effect, nEffects,
                 stopped>>
  /\ UNCHANGED notCamVars

\* mutation: the drawing without ctx.clearRect
StoreAndDraw_NoClear(preds) ==
  /\ predictions' = preds
  /\ debugInfo' = FrameDebug(preds)
  /\ overlay' = overlay \o DrawFaces(preds, ScaleX(ClientWidth, VideoWidth),
                                            ScaleY(ClientHeight, VideoHeight))
  /\ error' = error

\* the rest of the try block (95-123)
StoreAndDraw(preds) ==
  /\ predictions' = preds
  /\ debugInfo' = FrameDebug(preds)
  /\ overlay' = DrawFaces(preds, ScaleX(ClientWidth, VideoWidth),
                                 ScaleY(ClientHeight, VideoHeight))
  /\ error' = error

\* the catch block (125-129)
CatchDetect ==
  /\ error' = DetectError
  /\ debugInfo' = ErrorDebug
  /\ UNCHANGED <<predictions, overlay>>

\* model.estimateFaces resolves in a call made by runDetection, which then
\* arms its timer (94-123, 145)
EstimateResolved(c) ==
  /\ chain[c] = "await"
  /\ \E preds \in Results : StoreAndDraw(preds)
  /\ chain' = [chain EXCEPT ![c] = "timer"]
  /\ lastOp' = "resolved"
  /\ UNCHANGED <<isStreaming, model, isLoading, loadPc, mediaVars, gumPending,
                 nStarts, effect, nEffects, rafPending, rafInflight, stopped>>
  /\ UNCHANGED notCamVars

\* mutation: the rejection escapes detectFaces, so runDetection never gets to
\* its setTimeout
EstimateRejected_Escapes(c) ==
  /\ chain[c] = "await"
  /\ CatchDetect
  /\ chain' = [chain EXCEPT ![c] = "none"]
  /\ lastOp' = "rejected_estimate"
  /\ UNCHANGED <<isStreaming, model, isLoading, loadPc, mediaVars, gumPending,
                 nStarts, effect, nEffects, rafPending, rafInflight, stopped>>
  /\ UNCHANGED notCamVars

\* model.estimateFaces rejects in a call made by runDetection (125-129, 145)
EstimateRejected(c) ==
  /\ chain[c] = "await"
  /\ CatchDetect
  /\ chain' = [chain EXCEPT ![c] = "timer"]
  /\ lastOp' = "rejected_estimate"
  /\ UNCHANGED <<isStreaming, model, isLoading, loadPc, mediaVars, gumPending,
                 nStarts, effect, nEffects, rafPending, rafInflight, stopped>>
  /\ UNCHANGED notCamVars

\* the same two outcomes in a call made by a frame callback
RafEstimateResolved ==
  /\ rafInflight > 0
  /\ \E preds \in Results : StoreAndDraw(preds)
  /\ rafInflight' = rafInflight - 1
  /\ lastOp' = "raf_resolved"
  /\ UNCHANGED <<isStreaming, model, isLoading, loadPc, mediaVars, gumPending,
                 nStarts, chain, effect, nEffects, rafPending, stopped>>
  /\ UNCHANGED notCamVars

RafEstimateRejected ==
  /\ rafInflight > 0
  /\ CatchDetect
  /\ rafInflight' = rafInflight - 1
  /\ lastOp' = "raf_rejected"
  /\ UNCHANGED <<isStreaming, model, isLoading, loadPc, mediaVars, gumPending,
                 nStarts, chain, effect, nEffects, rafPending, stopped>>
  /\ UNCHANGED notCamVars

\* window resize (159-169): assigning canvas.width clears the canvas
HandleResize ==
  /\ overlay' = <<>>
  /\ lastOp' = "resize"
  /\ UNCHANGED <<isStreaming, error, model, isLoading, predictions, debugInfo,
                 loadPc, mediaVars, gumPending, nStarts, chain, effect, nEffects,
                 rafPending, rafInflight, stopped>>
  /\ UNCHANGED notCamVars

\* ================================================== src/unnamed/part_001
LANDMARKS == "FaceLandmarksDetector"
ModelsError == "Failed to load the face detection models."
LoadedDebug == [kind |-> "Models loaded successfully", raw |-> <<>>]
LoadErrorDebug == [kind |-> "Error loading models", raw |-> <<>>]
DetectedDebug(preds) == [kind |-> "Detected", raw |-> preds]

\* part_001 35-36
scaleFactor == 2
yScalerPos == <<17, 20>>

RatSub(p, q) == Rat(p[1] * q[2] - q[1] * p[2], p[2] * q[2])
RatMul(p, q) == Rat(p[1] * q[1], p[2] * q[2])

\* cropFace (94-114): the source rectangle copied into the temporary canvas
cropFace(face) ==
  LET x == face.topLeft[1]
      y == face.topLeft[2]
      width == face.bottomRight[1] - face.topLeft[1]
      height == face.bottomRight[2] - face.topLeft[2]
      scaledWidth == width * scaleFactor
      scaledHeight == height * scaleFactor
      scaledX == RatSub(Rat(x, 1), Rat(scaledWidth - width, 2))
      scaledY == RatSub(Times(y, yScalerPos), Rat(scaledHeight - height, 2))
  IN  [sx |-> scaledX, sy |-> scaledY, sw |-> scaledWidth, sh |-> scaledHeight]

\* mutation: the box drawn without the vertical offset factor
CfDrawFace_NoOffset(face, scaleX, scaleY) ==
  LET x == face.topLeft[1]
      y == face.topLeft[2]
      width == face.bottomRight[1] - face.topLeft[1]
      height == face.bottomRight[2] - face.topLeft[2]
  IN  <<[shape |-> "strokeRect", x |-> Times(x, scaleX),
         y |-> Times(y, scaleY),
         w |-> Times(width, scaleX), h |-> Times(height, scaleY)]>>
      \o [i \in 1..Len(face.landmarks) |->
            [shape |-> "arc", x |-> Times(face.landmarks[i][1], scaleX),
             y |-> Times(face.landmarks[i][2], scaleY), r |-> 3]]

\* one pass of the for loop up to its await (147-168): the box and the
\* landmarks of one face
CfDrawFace(face, scaleX, scaleY) ==
  LET x == face.topLeft[1]
      y == face.topLeft[2]
      width == face.bottomRight[1] - face.topLeft[1]
      height == face.bottomRight[2] - face.topLeft[2]
  IN  <<[shape |-> "strokeRect", x |-> Times(x, scaleX),
         y |-> RatMul(Times(y, scaleY), yScalerPos),
         w |-> Times(width, scaleX), h |-> Times(height, scaleY)]>>
      \o [i \in 1..Len(face.landmarks) |->
            [shape |-> "arc", x |-> Times(face.landmarks[i][1], scaleX),
             y |-> Times(face.landmarks[i][2], scaleY), r |-> 3]]

\* what landmarkModel.estimateFaces can return (maxFaces: 1)
LandmarkResults == {<<>>, <<"mesh">>}

CfInit ==
  /\ cfIsStreaming = FALSE
  /\ cfError = NULL
  /\ blazefaceModel = NULL
  /\ landmarkModel = NULL
  /\ cfIsLoading = TRUE
  /\ cfPredictions = <<>>
  /\ croppedFaces = <<>>
  /\ cfDebugInfo = EmptyDebug
  /\ cfLoadPc = "setBackend"
  /\ cfSrcObject = 0
  /\ cfLiveTracks = {}
  /\ cfNStreams = 0
  /\ cfGumPending = 0
  /\ cfNStarts = 0
  /\ cfReadyState = HAVE_NOTHING
  /\ cfOverlay = <<>>
  /\ cfTimer = FALSE
  /\ cfRafPending = 0
  /\ cfCalls = <<>>
  /\ cfLastOp = "mount"


cfLoopVars == <<cfTimer, cfRafPending, cfCalls, cfOverlay>>
cfMediaVars == <<cfSrcObject, cfLiveTracks, cfNStreams, cfReadyState>>
cfResultVars == <<cfPredictions, croppedFaces, cfDebugInfo>>

\* a detectFaces invocation that has reached its first await (136): its
\* locals, plus a history field: whether it is the invocation started last
StartCall(calls) ==
  Append([k \in 1..Len(calls) |-> [calls[k] EXCEPT !.latest = FALSE]],
         [pc |-> "blazeface", preds |-> <<>>, i |-> 0, newCroppedFaces |-> <<>>,
          latest |-> TRUE])

\* detectFaces (116-136) from its call to its first suspension
CfDetectFacesStart(rs) ==
  IF rs = HAVE_ENOUGH_DATA
  THEN /\ Len(cfCalls) + cfRafPending < MaxCalls
       /\ cfCalls' = StartCall(cfCalls)
       /\ cfOverlay' = <<>>
       /\ cfRafPending' = cfRafPending
  ELSE /\ Len(cfCalls) + cfRafPending < MaxCalls
       /\ cfRafPending' = cfRafPending + 1
       /\ UNCHANGED <<cfCalls, cfOverlay>>

\* useEffect(..., [isStreaming, blazefaceModel, landmarkModel, detectFaces])
\* (192-209) re-run with the new values: the cleanup clears the pending
\* timer, then runDetection (195-198) calls detectFaces without awaiting it
\* and arms the timer
CfDetectionEffect(ns, nb, nl, rs) ==
  IF ns /\ nb # NULL /\ nl # NULL
  THEN /\ CfDetectFacesStart(rs)
       /\ cfTimer' = TRUE
  ELSE /\ cfTimer' = FALSE
       /\ UNCHANGED <<cfRafPending, cfCalls, cfOverlay>>

\* ---- loadModels (68-92) ----------------------------------------------
CfSetBackendDone ==
  /\ cfLoadPc = "setBackend"
  /\ cfLoadPc' = "blazeface"
  /\ cfLastOp' = "setBackend"
  /\ UNCHANGED <<cfIsStreaming, cfError, blazefaceModel, landmarkModel, cfIsLoading,
                 cfResultVars, cfMediaVars, cfGumPending, cfNStarts, cfLoopVars>>
  /\ UNCHANGED notCfVars

CfBlazefaceLoaded ==
  /\ cfLoadPc = "blazeface"
  /\ cfLoadPc' = "landmark"
  /\ blazefaceModel' = LOADED
  /\ CfDetectionEffect(cfIsStreaming, LOADED, landmarkModel, cfReadyState)
  /\ cfLastOp' = "blazefaceLoaded"
  /\ UNCHANGED <<cfIsStreaming, cfError, landmarkModel, cfIsLoading,
                 cfResultVars, cfMediaVars, cfGumPending, cfNStarts>>
  /\ UNCHANGED notCfVars

CfLandmarkLoaded ==
  /\ cfLoadPc = "landmark"
  /\ cfLoadPc' = "done"
  /\ landmarkModel' = LANDMARKS
  /\ cfIsLoading' = FALSE
  /\ cfDebugInfo' = LoadedDebug
  /\ CfDetectionEffect(cfIsStreaming, blazefaceModel, LANDMARKS, cfReadyState)
  /\ cfLastOp' = "landmarkLoaded"
  /\ UNCHANGED <<cfIsStreaming, cfError, blazefaceModel, cfPredictions, croppedFaces,
                 cfMediaVars, cfGumPending, cfNStarts>>
  /\ UNCHANGED notCfVars

CfLoadModelsFail ==
  /\ cfLoadPc \in {"setBackend", "blazeface", "landmark"}
  /\ cfLoadPc' = "failed"
  /\ cfError' = ModelsError
  /\ cfDebugInfo' = LoadErrorDebug
  /\ cfIsLoading' = FALSE
  /\ cfLastOp' = "loadModelsFailed"
  /\ UNCHANGED <<cfIsStreaming, blazefaceModel, landmarkModel, cfPredictions,
                 croppedFaces, cfMediaVars, cfGumPending, cfNStarts, cfLoopVars>>
  /\ UNCHANGED notCfVars

\* ---- startCamera (38-54), stopCamera (56-66) --------------------------
CfStartCamera ==
  /\ ~cfIsStreaming /\ ~cfIsLoading
  /\ cfNStarts < CfMaxStarts
  /\ cfNStarts' = cfNStarts + 1
  /\ cfGumPending' = cfGumPending + 1
  /\ cfLastOp' = "startCamera"
  /\ UNCHANGED <<cfIsStreaming, cfError, blazefaceModel, landmarkModel, cfIsLoading,
                 cfResultVars, cfLoadPc, cfMediaVars, cfLoopVars>>
  /\ UNCHANGED notCfVars

CfGetUserMediaGranted ==
  /\ cfGumPending > 0
  /\ cfGumPending' = cfGumPending - 1
  /\ cfNStreams' = cfNStreams + 1
  /\ cfLiveTracks' = cfLiveTracks \cup {cfNStreams + 1}
  /\ cfSrcObject' = cfNStreams + 1
  /\ cfReadyState' = HAVE_NOTHING
  /\ cfError' = NULL
  /\ cfLastOp' = "granted"
  /\ UNCHANGED <<cfIsStreaming, blazefaceModel, landmarkModel, cfIsLoading,
                 cfResultVars, cfLoadPc, cfNStarts, cfLoopVars>>
  /\ UNCHANGED notCfVars

CfGetUserMediaRejected ==
  /\ cfGumPending > 0
  /\ cfGumPending' = cfGumPending - 1
  /\ cfError' = CameraError
  /\ cfIsLoading' = FALSE
  /\ cfLastOp' = "rejected"
  /\ UNCHANGED <<cfIsStreaming, blazefaceModel, landmarkModel, cfResultVars,
                 cfLoadPc, cfMediaVars, cfNStarts, cfLoopVars>>
  /\ UNCHANGED notCfVars

CfLoadedMetadata ==
  /\ cfSrcObject # 0
  /\ cfReadyState = HAVE_NOTHING
  /\ \E rs \in {HAVE_METADATA, HAVE_ENOUGH_DATA} :
       /\ cfReadyState' = rs
       /\ cfIsStreaming' = TRUE
       /\ IF cfIsStreaming
          THEN UNCHANGED cfLoopVars
          ELSE CfDetectionEffect(TRUE, blazefaceModel, landmarkModel, rs)
  /\ cfLastOp' = "loadedmetadata"
  /\ UNCHANGED <<cfError, blazefaceModel, landmarkModel, cfIsLoading, cfResultVars,
                 cfLoadPc, cfSrcObject, cfLiveTracks, cfNStreams, cfGumPending,
                 cfNStarts>>
  /\ UNCHANGED notCfVars

CfVideoBuffered ==
  /\ cfSrcObject # 0
  /\ cfReadyState = HAVE_METADATA
  /\ cfReadyState' = HAVE_ENOUGH_DATA
  /\ cfLastOp' = "buffered"
  /\ UNCHANGED <<cfIsStreaming, cfError, blazefaceModel, landmarkModel, cfIsLoading,
                 cfResultVars, cfLoadPc, cfSrcObject, cfLiveTracks, cfNStreams,
                 cfGumPending, cfNStarts, cfLoopVars>>
  /\ UNCHANGED notCfVars

CfStopCamera ==
  /\ cfIsStreaming /\ ~cfIsLoading
  /\ IF cfSrcObject # 0
     THEN /\ cfLiveTracks' = cfLiveTracks \ {cfSrcObject}
          /\ cfSrcObject' = 0
          /\ cfReadyState' = HAVE_NOTHING
          /\ cfIsStreaming' = FALSE
          /\ cfPredictions' = <<>>
          /\ croppedFaces' = <<>>
          /\ cfDebugInfo' = EmptyDebug
          /\ CfDetectionEffect(FALSE, blazefaceModel, landmarkModel, HAVE_NOTHING)
     ELSE UNCHANGED <<cfLiveTracks, cfSrcObject, cfReadyState, cfIsStreaming,
                      cfResultVars, cfLoopVars>>
  /\ cfLastOp' = "stopCamera"
  /\ UNCHANGED <<cfError, blazefaceModel, landmarkModel, cfIsLoading, cfLoadPc,
                 cfNStreams, cfGumPending, cfNStarts>>
  /\ UNCHANGED notCfVars


\* ---- callbacks of the detection loop ---------------------------------
\* setTimeout(runDetection, 600) fires (195-198)
CfTimerFires ==
  /\ cfTimer
  /\ CfDetectFacesStart(cfReadyState)
  /\ cfTimer' = TRUE
  /\ cfLastOp' = "runDetection"
  /\ UNCHANGED <<cfIsStreaming, cfError, blazefaceModel, landmarkModel, cfIsLoading,
                 cfResultVars, cfLoadPc, cfMediaVars, cfGumPending, cfNStarts>>
  /\ UNCHANGED notCfVars

\* requestAnimationFrame(detectFaces) fires (125)
CfRafFires ==
  /\ cfRafPending > 0
  /\ IF cfReadyState = HAVE_ENOUGH_DATA
     THEN /\ cfCalls' = StartCall(cfCalls)
          /\ cfOverlay' = <<>>
          /\ cfRafPending' = cfRafPending - 1
     ELSE UNCHANGED <<cfRafPending, cfCalls, cfOverlay>>
  /\ cfLastOp' = "rafDetectFaces"
  /\ UNCHANGED <<cfIsStreaming, cfError, blazefaceModel, landmarkModel, cfIsLoading,
                 cfResultVars, cfLoadPc, cfMediaVars, cfGumPending, cfNStarts, cfTimer>>
  /\ UNCHANGED notCfVars

RemoveAt(seq, k) == [j \in 1..(Len(seq) - 1) |-> IF j < k THEN seq[j] ELSE seq[j + 1]]

CfScaleX == ScaleX(ClientWidth, VideoWidth)
CfScaleY == ScaleY(ClientHeight, VideoHeight)

\* blazefaceModel.estimateFaces resolves in invocation k (136-168): the
\* result is stored, the canvas cleared, and the loop runs to its first
\* landmark call, or, with no face, to the end of the try block (172-175)
CfBlazefaceResolved(k) ==
  /\ k \in 1..Len(cfCalls)
  /\ cfCalls[k].pc = "blazeface"
  /\ \E preds \in Results :
       /\ cfPredictions' = preds
       /\ IF preds = <<>>
          THEN /\ cfOverlay' = <<>>
               /\ croppedFaces' = <<>>
               /\ cfDebugInfo' = DetectedDebug(preds)
               /\ cfCalls' = RemoveAt(cfCalls, k)
          ELSE /\ cfOverlay' = CfDrawFace(preds[1], CfScaleX, CfScaleY)
               /\ cfCalls' = [cfCalls EXCEPT ![k] =
                                [cfCalls[k] EXCEPT !.pc = "landmark", !.preds = preds,
                                                   !.i = 1]]
               /\ UNCHANGED <<croppedFaces, cfDebugInfo>>
  /\ cfLastOp' = "blazefaceResolved"
  /\ UNCHANGED <<cfIsStreaming, cfError, blazefaceModel, landmarkModel, cfIsLoading,
                 cfLoadPc, cfMediaVars, cfGumPending, cfNStarts, cfTimer, cfRafPending>>
  /\ UNCHANGED notCfVars

\* mutation: each face's entry replaces the list instead of being pushed
CfLandmarkResolved_Overwrites(k) ==
  /\ k \in 1..Len(cfCalls)
  /\ cfCalls[k].pc = "landmark"
  /\ \E lm \in LandmarkResults :
       LET call == cfCalls[k]
           pushed == <<[image |-> cropFace(call.preds[call.i]), landmarks |-> lm]>>
       IN  IF call.i < Len(call.preds)
           THEN /\ cfOverlay' = cfOverlay \o CfDrawFace(call.preds[call.i + 1],
                                                        CfScaleX, CfScaleY)
                /\ cfCalls' = [cfCalls EXCEPT ![k] =
                                 [call EXCEPT !.i = call.i + 1,
                                              !.newCroppedFaces = pushed]]
                /\ UNCHANGED <<croppedFaces, cfDebugInfo>>
           ELSE /\ croppedFaces' = pushed
                /\ cfDebugInfo' = DetectedDebug(call.preds)
                /\ cfCalls' = RemoveAt(cfCalls, k)
                /\ cfOverlay' = cfOverlay
  /\ cfLastOp' = "landmarkResolved"
  /\ UNCHANGED <<cfIsStreaming, cfError, blazefaceModel, landmarkModel, cfIsLoading,
                 cfPredictions, cfLoadPc, cfMediaVars, cfGumPending, cfNStarts,
                 cfTimer, cfRafPending>>
  /\ UNCHANGED notCfVars

\* landmarkModel.estimateFaces resolves for face i of invocation k (168-175)
CfLandmarkResolved(k) ==
  /\ k \in 1..Len(cfCalls)
  /\ cfCalls[k].pc = "landmark"
  /\ \E lm \in LandmarkResults :
       LET call == cfCalls[k]
           pushed == Append(call.newCroppedFaces,
                            [image |-> cropFace(call.preds[call.i]), landmarks |-> lm])
       IN  IF call.i < Len(call.preds)
           THEN /\ cfOverlay' = cfOverlay \o CfDrawFace(call.preds[call.i + 1],
                                                        CfScaleX, CfScaleY)
                /\ cfCalls' = [cfCalls EXCEPT ![k] =
                                 [call EXCEPT !.i = call.i + 1,
                                              !.newCroppedFaces = pushed]]
                /\ UNCHANGED <<croppedFaces, cfDebugInfo>>
           ELSE /\ croppedFaces' = pushed
                /\ cfDebugInfo' = DetectedDebug(call.preds)
                /\ cfCalls' = RemoveAt(cfCalls, k)
                /\ cfOverlay' = cfOverlay
  /\ cfLastOp' = "landmarkResolved"
  /\ UNCHANGED <<cfIsStreaming, cfError, blazefaceModel, landmarkModel, cfIsLoading,
                 cfPredictions, cfLoadPc, cfMediaVars, cfGumPending, cfNStarts,
                 cfTimer, cfRafPending>>
  /\ UNCHANGED notCfVars

\* either model call of invocation k rejects: the catch block (177-181)
CfEstimateRejected(k) ==
  /\ k \in 1..Len(cfCalls)
  /\ cfError' = DetectError
  /\ cfDebugInfo' = ErrorDebug
  /\ cfCalls' = RemoveAt(cfCalls, k)
  /\ cfLastOp' = "estimateRejected"
  /\ UNCHANGED <<cfIsStreaming, blazefaceModel, landmarkModel, cfIsLoading,
                 cfPredictions, croppedFaces, cfLoadPc, cfMediaVars, cfGumPending,
                 cfNStarts, cfTimer, cfRafPending, cfOverlay>>
  /\ UNCHANGED notCfVars

CfNext ==
  \/ CfSetBackendDone
  \/ CfBlazefaceLoaded
  \/ CfLandmarkLoaded
  \/ CfLoadModelsFail
  \/ CfStartCamera
  \/ CfGetUserMediaGranted
  \/ CfGetUserMediaRejected
  \/ CfLoadedMetadata
  \/ CfVideoBuffered
  \/ CfStopCamera
  \/ CfTimerFires
  \/ CfRafFires
  \/ \E k \in 1..MaxCalls : CfBlazefaceResolved(k)
  \/ \E k \in 1..MaxCalls : CfLandmarkResolved(k)
  \/ \E k \in 1..MaxCalls : CfEstimateRejected(k)


\* ============================ src/components/face-detection-component.tsx
\* what faceapi.detectAllFaces(...).withFaceDescriptors() can resolve to
Detections == {<<>>, <<"face1">>, <<"face1", "face2">>}

FdInit ==
  /\ fdIsStreaming = FALSE
  /\ fdError = NULL
  /\ faceDescriptors = <<>>
  /\ fdLoadPc = "tinyFaceDetector"
  /\ fdSrcObject = 0
  /\ fdLiveTracks = {}
  /\ fdNStreams = 0
  /\ fdGumPending = 0
  /\ fdNStarts = 0
  /\ fdOverlay = <<>>
  /\ fdChain = [c \in Streams |-> "none"]
  /\ fdEffect = 0
  /\ fdNEffects = 0
  /\ fdLastOp = "mount"

fdLoopVars == <<fdChain, fdEffect, fdNEffects>>
fdMediaVars == <<fdSrcObject, fdLiveTracks, fdNStreams>>

\* ---- loadModels (14-21): three loads in sequence, no catch -------------
FdModelLoaded ==
  /\ fdLoadPc \in {"tinyFaceDetector", "faceLandmark68Net", "faceRecognitionNet"}
  /\ fdLoadPc' = CASE fdLoadPc = "tinyFaceDetector" -> "faceLandmark68Net"
                   [] fdLoadPc = "faceLandmark68Net" -> "faceRecognitionNet"
                   [] OTHER -> "done"
  /\ fdLastOp' = "modelLoaded"
  /\ UNCHANGED <<fdIsStreaming, fdError, faceDescriptors, fdMediaVars, fdGumPending,
                 fdNStarts, fdOverlay, fdLoopVars>>
  /\ UNCHANGED notFdVars

\* a loadFromUri rejects: the promise of loadModels is dropped (20)
FdModelLoadFailed ==
  /\ fdLoadPc \in {"tinyFaceDetector", "faceLandmark68Net", "faceRecognitionNet"}
  /\ fdLoadPc' = "failed"
  /\ fdLastOp' = "modelLoadFailed"
  /\ UNCHANGED <<fdIsStreaming, fdError, faceDescriptors, fdMediaVars, fdGumPending,
                 fdNStarts, fdOverlay, fdLoopVars>>
  /\ UNCHANGED notFdVars

\* cleanup of the mounted effect instance (75-79): cancelAnimationFrame
FdEffectCleanup ==
  IF fdEffect # 0 /\ fdChain[fdEffect] = "frame"
  THEN [fdChain EXCEPT ![fdEffect] = "cancelled"]
  ELSE fdChain

\* detectFaces (50-54) from its call to the await of faceapi.detectAllFaces
FdDetectFacesStart(base, c) ==
  fdChain' = [base EXCEPT ![c] = IF fdLoadPc = "done" THEN "await" ELSE "awaitUnloaded"]

\* useEffect(..., [isStreaming]) (47-80) re-run with the new value ns
FdDetectionEffect(ns) ==
  IF ns
  THEN /\ fdEffect' = fdNEffects + 1
       /\ fdNEffects' = fdNEffects + 1
       /\ FdDetectFacesStart(FdEffectCleanup, fdNEffects + 1)
  ELSE /\ fdEffect' = 0
       /\ fdNEffects' = fdNEffects
       /\ fdChain' = FdEffectCleanup

\* ---- startCamera (23-35), stopCamera (37-45) --------------------------
FdStartCamera ==
  /\ ~fdIsStreaming
  /\ fdNStarts < MaxStreams
  /\ fdNStarts' = fdNStarts + 1
  /\ fdGumPending' = fdGumPending + 1
  /\ fdLastOp' = "startCamera"
  /\ UNCHANGED <<fdIsStreaming, fdError, faceDescriptors, fdLoadPc, fdMediaVars,
                 fdOverlay, fdLoopVars>>
  /\ UNCHANGED notFdVars

FdGetUserMediaGranted ==
  /\ fdGumPending > 0
  /\ fdGumPending' = fdGumPending - 1
  /\ fdNStreams' = fdNStreams + 1
  /\ fdLiveTracks' = fdLiveTracks \cup {fdNStreams + 1}
  /\ fdSrcObject' = fdNStreams + 1
  /\ fdIsStreaming' = TRUE
  /\ fdError' = NULL
  /\ IF fdIsStreaming THEN UNCHANGED fdLoopVars ELSE FdDetectionEffect(TRUE)
  /\ fdLastOp' = "granted"
  /\ UNCHANGED <<faceDescriptors, fdLoadPc, fdNStarts, fdOverlay>>
  /\ UNCHANGED notFdVars

FdGetUserMediaRejected ==
  /\ fdGumPending > 0
  /\ fdGumPending' = fdGumPending - 1
  /\ fdError' = CameraError
  /\ fdLastOp' = "rejected"
  /\ UNCHANGED <<fdIsStreaming, faceDescriptors, fdLoadPc, fdMediaVars, fdNStarts,
                 fdOverlay, fdLoopVars>>
  /\ UNCHANGED notFdVars

FdStopCamera ==
  /\ fdIsStreaming
  /\ IF fdSrcObject # 0
     THEN /\ fdLiveTracks' = fdLiveTracks \ {fdSrcObject}
          /\ fdSrcObject' = 0
          /\ fdIsStreaming' = FALSE
          /\ faceDescriptors' = <<>>
          /\ FdDetectionEffect(FALSE)
     ELSE UNCHANGED <<fdLiveTracks, fdSrcObject, fdIsStreaming, faceDescriptors,
                      fdLoopVars>>
  /\ fdLastOp' = "stopCamera"
  /\ UNCHANGED <<fdError, fdLoadPc, fdNStreams, fdGumPending, fdNStarts, fdOverlay>>
  /\ UNCHANGED notFdVars

\* ---- the detection loop (50-69) ---------------------------------------
\* requestAnimationFrame(detectFaces) fires (67)
FdFrameFires(c) ==
  /\ fdChain[c] = "frame"
  /\ FdDetectFacesStart(fdChain, c)
  /\ fdLastOp' = "detectFaces"
  /\ UNCHANGED <<fdIsStreaming, fdError, faceDescriptors, fdLoadPc, fdMediaVars,
                 fdGumPending, fdNStarts, fdOverlay, fdEffect, fdNEffects>>
  /\ UNCHANGED notFdVars

\* detectAllFaces resolves (56-67): draw, store the descriptors, ask for the
\* next frame; only a call made with the nets loaded can resolve
FdDetectResolved(c) ==
  /\ fdChain[c] = "await"
  /\ \E dets \in Detections :
       /\ fdOverlay' = dets
       /\ faceDescriptors' = dets
  /\ fdChain' = [fdChain EXCEPT ![c] = "frame"]
  /\ fdLastOp' = "resolved"
  /\ UNCHANGED <<fdIsStreaming, fdError, fdLoadPc, fdMediaVars, fdGumPending,
                 fdNStarts, fdEffect, fdNEffects>>
  /\ UNCHANGED notFdVars

\* detectAllFaces rejects: detectFaces has no catch, the chain ends
FdDetectRejected(c) ==
  /\ fdChain[c] \in {"await", "awaitUnloaded"}
  /\ fdChain' = [fdChain EXCEPT ![c] = "ended"]
  /\ fdLastOp' = "detectRejected"
  /\ UNCHANGED <<fdIsStreaming, fdError, faceDescriptors, fdLoadPc, fdMediaVars,
                 fdGumPending, fdNStarts, fdOverlay, fdEffect, fdNEffects>>
  /\ UNCHANGED notFdVars

FdNext ==
  \/ FdModelLoaded
  \/ FdModelLoadFailed
  \/ FdStartCamera
  \/ FdGetUserMediaGranted
  \/ FdGetUserMediaRejected
  \/ FdStopCamera
  \/ \E c \in Streams : FdFrameFires(c)
  \/ \E c \in Streams : FdDetectResolved(c)
  \/ \E c \in Streams : FdDetectRejected(c)

\* ======================================================= specifications
Init == CamInit /\ DrawIdle /\ CfInit /\ FdInit

Next ==
  \/ SetBackendDone
  \/ LoadModelDone
  \/ LoadModelFail
  \/ StartCamera
  \/ GetUserMediaGranted
  \/ GetUserMediaRejected
  \/ LoadedMetadata
  \/ VideoBuffered
  \/ StopCamera
  \/ \E c \in Streams : TimerFires(c)
  \/ RafFires
  \/ \E c \in Streams : EstimateResolved(c)
  \/ \E c \in Streams : EstimateRejected(c)
  \/ RafEstimateResolved
  \/ RafEstimateRejected
  \/ HandleResize

Spec == Init /\ [][Next]_vars

CropSpec == Init /\ [][CfNext]_vars

FdSpec == Init /\ [][FdNext]_vars

\* the event loop runs every callback it holds, promises settle, and the
\* browser delivers the media events of an attached stream
FairSpec ==
  /\ Spec
  /\ \A c \in Streams : WF_vars(TimerFires(c))
  /\ \A c \in Streams :
       WF_vars(EstimateResolved(c) \/ EstimateRejected(c))
  /\ WF_vars(RafEstimateResolved \/ RafEstimateRejected)
  /\ WF_vars(LoadedMetadata)
  /\ WF_vars(VideoBuffered)


\* ====================================================== overlay geometry
\* inputs of one rendering: display size, native size, the detections
DrawFaceInputs ==
  {[topLeft |-> <<x1, y1>>, bottomRight |-> <<x1 + w, y1 + h>>, landmarks |-> lm] :
     x1 \in {0, 100}, y1 \in {100}, w \in {100}, h \in {100, 60},
     lm \in {<<>>, <<<<130, 140>>, <<170, 150>>>>}}
DrawInputs ==
  [clientWidth : {320, 640}, clientHeight : {240, 360},
   videoWidth : {640}, videoHeight : {480},
   preds : {<<>>} \cup {<<f>> : f \in DrawFaceInputs}
           \cup {<<f, g>> : f \in {FaceA}, g \in DrawFaceInputs}]

DrawInit ==
  /\ CamInit
  /\ CfInit
  /\ FdInit
  /\ drawArgs \in DrawInputs
  /\ drawn = NotDrawn

\* the drawing of detectFaces (88-90, 100-123) on one set of inputs
Render ==
  /\ ~drawn.done
  /\ drawn' = [done |-> TRUE,
               shapes |-> DrawFaces(drawArgs.preds,
                            ScaleX(drawArgs.clientWidth, drawArgs.videoWidth),
                            ScaleY(drawArgs.clientHeight, drawArgs.videoHeight))]
  /\ UNCHANGED <<drawArgs, camVars, cfVars, fdVars>>

DrawNext == Render

DrawSpec == DrawInit /\ [][DrawNext]_vars

\* everything the for loop of part_001 (146-170) draws in one cycle
RECURSIVE CfDrawFaces(_, _, _)
CfDrawFaces(faces, scaleX, scaleY) ==
  IF faces = <<>> THEN <<>>
  ELSE CfDrawFace(Head(faces), scaleX, scaleY) \o CfDrawFaces(Tail(faces), scaleX, scaleY)

\* the drawing of part_001 detectFaces (132-133, 139-165) on one set of inputs
CfRender ==
  /\ ~drawn.done
  /\ drawn' = [done |-> TRUE,
               shapes |-> CfDrawFaces(drawArgs.preds,
                            ScaleX(drawArgs.clientWidth, drawArgs.videoWidth),
                            ScaleY(drawArgs.clientHeight, drawArgs.videoHeight))]
  /\ UNCHANGED <<drawArgs, camVars, cfVars, fdVars>>

CfDrawNext == CfRender

CfDrawSpec == DrawInit /\ [][CfDrawNext]_vars

\* ================================================================ claims
InferencesInFlight == Cardinality({c \in Streams : chain[c] = "await"}) + rafInflight

\* C1: once stopCamera has run, predictions and debugInfo stay empty and
\* nothing is drawn until the next startCamera, also when a detectFaces
\* call was awaiting model.estimateFaces at the time of the stop.
C1_StopDiscardsInFlightResult ==
  stopped => /\ predictions = <<>>
             /\ debugInfo = EmptyDebug
             /\ lastOp \notin {"resolved", "raf_resolved"}

\* C2: after stopCamera no timer or animation-frame callback of the loop is
\* pending or created, and no detection cycle begins, until the next
\* startCamera.
C2_StopCancelsLoop ==
  stopped => /\ \A c \in Streams : chain[c] # "timer"
             /\ rafPending = 0
             /\ lastOp \notin {"runDetection", "rafDetectFaces"}

\* C3: after loadModel has failed, isLoading is false, model is null, error
\* was set by the failure, and no start / stop / timer sequence ever calls
\* model.estimateFaces (the loop is never started).
C3_LoadFailureStopsInference ==
  loadPc = "failed" =>
    /\ isLoading = FALSE
    /\ model = NULL
    /\ lastOp = "loadModelFailed" => error = ModelError
    /\ InferencesInFlight = 0
    /\ \A c \in Streams : chain[c] = "none"
    /\ rafPending = 0

C3_Witness ==
  /\ loadPc = "failed"
  /\ isStreaming
  /\ readyState = HAVE_ENOUGH_DATA
  /\ liveTracks = {2}

\* C4: a rejected model.estimateFaces sets error and writes the diagnostic
\* to debugInfo, and while the session stays streaming the loop of that
\* session runs a further inference.
C4_InferenceFailureNotFatal ==
  /\ [][lastOp' \in {"rejected_estimate", "raf_rejected"} /\ InferencesInFlight' < InferencesInFlight
          => error' = DetectError /\ debugInfo' = ErrorDebug]_vars
  /\ \A c \in Streams :
       (isStreaming /\ effect = c /\ lastOp = "rejected_estimate")
         ~> (~isStreaming \/ chain[c] = "await")

C4_Witness ==
  /\ isStreaming
  /\ nEffects = 1
  /\ rafPending = 0 /\ rafInflight = 0
  /\ error = DetectError
  /\ debugInfo = ErrorDebug
  /\ chain[1] = "await"

\* C5: at most one detectFaces invocation is between its call of
\* model.estimateFaces and the end of its drawing.
C5_CyclesNeverOverlap == InferencesInFlight <= 1

\* C6: in the cropped-face variant a detection cycle starts only after the
\* previous one, with all its landmark calls, has finished: at most one
\* detectFaces invocation is in flight.
C6_CroppedCyclesNeverOverlap == Len(cfCalls) <= 1

\* C7: after stopCamera no track of any stream obtained by an earlier
\* startCamera is live and no stream is attached to the video element.
C7_StopHaltsAllTracks ==
  stopped => liveTracks = {} /\ srcObject = 0

\* C8: a rejected getUserMedia sets the camera error, leaves isStreaming
\* false, attaches no stream, leaves model and predictions unchanged, starts
\* no detection cycle, and leaves the Start button usable.
C8_RejectedStartLeavesNotStreaming ==
  [][lastOp' = "rejected" /\ gumPending' < gumPending =>
       /\ error' = CameraError
       /\ isStreaming' = FALSE
       /\ srcObject' = srcObject
       /\ model' = model /\ predictions' = predictions
       /\ chain' = chain /\ rafPending' = rafPending /\ rafInflight' = rafInflight
       /\ ~isLoading']_vars

\* C9: a granted getUserMedia attaches the stream and clears error, and the
\* detection loop runs only while isStreaming is true.
C9_LoopOnlyWhileStreaming ==
  /\ lastOp = "granted" => srcObject # 0 /\ error = NULL
  /\ lastOp \in {"runDetection", "rafDetectFaces"} => isStreaming

\* index in the drawing of the rectangle of detection i
RECURSIVE RectIndex(_, _)
RectIndex(preds, i) ==
  IF i = 1 THEN 1
  ELSE RectIndex(preds, i - 1) + 1 + Len(preds[i - 1].landmarks)

\* q is the number num / den
IsQuotient(q, num, den) == q[1] * den = num * q[2]

\* C10: the rectangle of every detection is at (x1*scaleX, y1*scaleY) with
\* size ((x2-x1)*scaleX, (y2-y1)*scaleY), and every landmark (lx, ly) is
\* drawn at (lx*scaleX, ly*scaleY), where scaleX = clientWidth/videoWidth and
\* scaleY = clientHeight/videoHeight.
C10_RectangleScaledPerAxis ==
  drawn.done =>
    \A i \in 1..Len(drawArgs.preds) :
      LET f == drawArgs.preds[i]
          k == RectIndex(drawArgs.preds, i)
          r == drawn.shapes[k]
          cw == drawArgs.clientWidth
          ch == drawArgs.clientHeight
          vw == drawArgs.videoWidth
          vh == drawArgs.videoHeight
      IN  /\ r.shape = "strokeRect"
          /\ IsQuotient(r.x, f.topLeft[1] * cw, vw)
          /\ IsQuotient(r.y, f.topLeft[2] * ch, vh)
          /\ IsQuotient(r.w, (f.bottomRight[1] - f.topLeft[1]) * cw, vw)
          /\ IsQuotient(r.h, (f.bottomRight[2] - f.topLeft[2]) * ch, vh)
          /\ \A j \in 1..Len(f.landmarks) :
               /\ drawn.shapes[k + j].shape = "arc"
               /\ IsQuotient(drawn.shapes[k + j].x, f.landmarks[j][1] * cw, vw)
               /\ IsQuotient(drawn.shapes[k + j].y, f.landmarks[j][2] * ch, vh)

\* native 640x480 shown at 320x240, corners (100,100)-(200,200): a rectangle
\* at (50,50) of size 50x50; shown at 320x360 the scales differ per axis
C10_Witness ==
  /\ drawn.done
  /\ drawArgs.clientWidth = 320 /\ drawArgs.clientHeight = 240
  /\ drawArgs.videoWidth = 640 /\ drawArgs.videoHeight = 480
  /\ Len(drawArgs.preds) = 2
  /\ drawArgs.preds[1].topLeft = <<100, 100>>
  /\ drawArgs.preds[1].bottomRight = <<200, 200>>
  /\ drawn.shapes[1] = [shape |-> "strokeRect", x |-> <<50, 1>>, y |-> <<50, 1>>,
                        w |-> <<50, 1>>, h |-> <<50, 1>>]

\* C11 as stated: in the cropped-face variant the rectangle of a detection is
\* at (x1*scaleX, y1*scaleY) with size ((x2-x1)*scaleX, (y2-y1)*scaleY).
C11_CroppedRectangleAtCorner ==
  drawn.done =>
    \A i \in 1..Len(drawArgs.preds) :
      LET f == drawArgs.preds[i]
          r == drawn.shapes[RectIndex(drawArgs.preds, i)]
      IN  /\ r.shape = "strokeRect"
          /\ IsQuotient(r.x, f.topLeft[1] * drawArgs.clientWidth, drawArgs.videoWidth)
          /\ IsQuotient(r.y, f.topLeft[2] * drawArgs.clientHeight, drawArgs.videoHeight)
          /\ IsQuotient(r.w, (f.bottomRight[1] - f.topLeft[1]) * drawArgs.clientWidth,
                        drawArgs.videoWidth)
          /\ IsQuotient(r.h, (f.bottomRight[2] - f.topLeft[2]) * drawArgs.clientHeight,
                        drawArgs.videoHeight)

\* C11 amended: the rectangle is at (x1*scaleX, y1*scaleY*yScalerPos), with
\* yScalerPos = 0.85, and has size ((x2-x1)*scaleX, (y2-y1)*scaleY).
C11_CroppedRectangleOffset ==
  drawn.done =>
    \A i \in 1..Len(drawArgs.preds) :
      LET f == drawArgs.preds[i]
          r == drawn.shapes[RectIndex(drawArgs.preds, i)]
      IN  /\ r.shape = "strokeRect"
          /\ IsQuotient(r.x, f.topLeft[1] * drawArgs.clientWidth, drawArgs.videoWidth)
          /\ IsQuotient(r.y, f.topLeft[2] * drawArgs.clientHeight * 17,
                        drawArgs.videoHeight * 20)
          /\ IsQuotient(r.w, (f.bottomRight[1] - f.topLeft[1]) * drawArgs.clientWidth,
                        drawArgs.videoWidth)
          /\ IsQuotient(r.h, (f.bottomRight[2] - f.topLeft[2]) * drawArgs.clientHeight,
                        drawArgs.videoHeight)

\* native 640x480 shown at 320x240, corners (100,100)-(200,200): the box is
\* drawn at (50, 42.5) with size 50x50
C11_Witness ==
  /\ drawn.done
  /\ drawArgs.clientWidth = 320 /\ drawArgs.clientHeight = 240
  /\ Len(drawArgs.preds) = 1
  /\ drawArgs.preds[1].topLeft = <<100, 100>>
  /\ drawArgs.preds[1].bottomRight = <<200, 200>>
  /\ drawn.shapes[1] = [shape |-> "strokeRect", x |-> <<50, 1>>, y |-> <<85, 2>>,
                        w |-> <<50, 1>>, h |-> <<50, 1>>]

\* C12: after every detection cycle in which the model returned no
\* detection, the overlay holds no shape and predictions is empty, whatever
\* was on the canvas before.
C12_ZeroDetectionsClearOverlay ==
  (lastOp \in {"resolved", "raf_resolved"} /\ debugInfo = FrameDebug(<<>>)) =>
    overlay = <<>> /\ predictions = <<>>

\* a cycle with no detection has just completed beside another cycle that is
\* still in flight (the flow that can have drawn in the meantime)
C12_Witness ==
  /\ lastOp \in {"resolved", "raf_resolved"}
  /\ debugInfo = FrameDebug(<<>>)
  /\ isStreaming
  /\ InferencesInFlight > 0
  /\ overlay = <<>>

\* the cropped faces one cycle builds from its detections
RECURSIVE CropsOf(_)
CropsOf(faces) ==
  IF faces = <<>> THEN <<>> ELSE <<cropFace(Head(faces))>> \o CropsOf(Tail(faces))

ImagesOf(cropped) == [j \in 1..Len(cropped) |-> cropped[j].image]

\* C13: when a detection cycle completes successfully, predictions is exactly
\* the list that cycle's model call returned, croppedFaces (part_001) holds
\* exactly the entries built in that cycle, and the overlay shows exactly the
\* shapes of that cycle.
C13_FrameStructuresReplaced ==
  /\ [][(lastOp' \in {"resolved", "raf_resolved"} /\ InferencesInFlight' < InferencesInFlight)
          => /\ predictions' = debugInfo'.raw
             /\ overlay' = DrawFaces(debugInfo'.raw, ScaleX(ClientWidth, VideoWidth),
                                     ScaleY(ClientHeight, VideoHeight))]_vars
  /\ [][(cfLastOp' \in {"blazefaceResolved", "landmarkResolved"} /\ Len(cfCalls') < Len(cfCalls))
          => /\ cfPredictions' = cfDebugInfo'.raw
             /\ ImagesOf(croppedFaces') = CropsOf(cfDebugInfo'.raw)
             /\ cfOverlay' = CfDrawFaces(cfDebugInfo'.raw, CfScaleX, CfScaleY)]_vars

\* C14: faceapi.detectAllFaces is never invoked before the three nets have
\* been loaded, and never when a load has failed.
C14_NoDetectionWithoutModels ==
  \A c \in Streams : fdChain[c] \in {"await", "awaitUnloaded"} => fdLoadPc = "done"

\* C15: a detection cycle that finds the video short of HAVE_ENOUGH_DATA
\* calls no inference, leaves the overlay, predictions, debugInfo and error
\* as they are, and leaves an animation-frame callback pending that will try
\* again.
C15_UnreadyVideoReschedules ==
  [][((\/ lastOp' \in {"runDetection", "rafDetectFaces"}
       \/ lastOp' = "loadedmetadata" /\ nEffects' > nEffects)
      /\ readyState' # HAVE_ENOUGH_DATA
      /\ camVars' # camVars)
     => /\ InferencesInFlight' = InferencesInFlight
        /\ overlay' = overlay
        /\ predictions' = predictions
        /\ debugInfo' = debugInfo
        /\ error' = error
        /\ rafPending' > 0
        /\ rafPending' = IF lastOp' = "rafDetectFaces" THEN rafPending ELSE rafPending + 1]_vars

C15_Witness ==
  /\ lastOp = "rafDetectFaces"
  /\ isStreaming
  /\ readyState = HAVE_METADATA
  /\ rafPending > 0
  /\ InferencesInFlight = 0

\* C16: when the blazeface call or a landmark call of a cycle rejects, error
\* and debugInfo report it and the overlay shows no partial drawing of that
\* cycle: it is as before the cycle or empty. Every cycle empties the canvas
\* before its first await (129-130), so both cases leave an empty canvas.
C16_FailedCycleLeavesNoPartialDrawing ==
  [][(cfLastOp' = "estimateRejected" /\ Len(cfCalls') < Len(cfCalls))
       => /\ cfError' = DetectError
          /\ cfDebugInfo' = ErrorDebug
          /\ cfOverlay' = <<>>]_vars

\* C17: within a cycle landmarkModel.estimateFaces runs once per detection,
\* in detection order and one at a time: the call for face i is in flight
\* exactly when the entries of faces 1..i-1 have been built, the cycle ends
\* with the call for the last face, and croppedFaces then holds one entry per
\* detection in detection order.
C17_LandmarksSerialPerFace ==
  /\ [](\A k \in 1..Len(cfCalls) :
          cfCalls[k].pc = "landmark" =>
            /\ cfCalls[k].i \in 1..Len(cfCalls[k].preds)
            /\ ImagesOf(cfCalls[k].newCroppedFaces)
                 = CropsOf(SubSeq(cfCalls[k].preds, 1, cfCalls[k].i - 1)))
  /\ [][(cfLastOp' = "landmarkResolved" /\ Len(cfCalls') < Len(cfCalls))
          => \E k \in 1..Len(cfCalls) :
               /\ cfCalls' = RemoveAt(cfCalls, k)
               /\ cfCalls[k].i = Len(cfCalls[k].preds)
               /\ ImagesOf(croppedFaces') = CropsOf(cfCalls[k].preds)]_vars
  /\ [][(cfLastOp' = "blazefaceResolved" /\ Len(cfCalls') < Len(cfCalls))
          => croppedFaces' = <<>> /\ cfPredictions' = <<>>]_vars

\* a cycle with two detections has just completed
C17_Witness ==
  /\ cfLastOp = "landmarkResolved"
  /\ cfDebugInfo = DetectedDebug(<<FaceA, FaceB>>)
  /\ ImagesOf(croppedFaces) = <<cropFace(FaceA), cropFace(FaceB)>>
  /\ cfCalls = <<>>

\* C18: the model is loaded once per session: loadModel's body only moves
\* forward (setBackend, load, then done or failed) and is never entered
\* again, model changes only from null to the loaded model when the load
\* completes, and isLoading changes only from true to false, in the step
\* that ends the load, so it is true exactly while the load is running.
C18_ModelLoadedOnce ==
  /\ [][loadPc' # loadPc =>
         <<loadPc, loadPc'>> \in {<<"setBackend", "load">>, <<"setBackend", "failed">>,
                                  <<"load", "done">>, <<"load", "failed">>}]_vars
  /\ [][model' # model =>
         model = NULL /\ model' = LOADED /\ loadPc = "load" /\ loadPc' = "done"]_vars
  /\ [][isLoading' # isLoading =>
         /\ isLoading /\ ~isLoading'
         /\ loadPc \in {"setBackend", "load"} /\ loadPc' \in {"done", "failed"}]_vars
  /\ [](isLoading <=> loadPc \in {"setBackend", "load"})
  /\ [](model # NULL <=> loadPc = "done")

\* the catch of startCamera (37-41) ran after a successful load: the model
\* is still there and isLoading is still false
C18_Witness ==
  /\ lastOp = "rejected"
  /\ model = LOADED
  /\ ~isLoading
  /\ loadPc = "done"

\* callbacks of the detection loop that are waiting to run: armed
\* setTimeout(runDetection) timers and requested animation frames
PendingLoopCallbacks ==
  Cardinality({c \in Streams : chain[c] = "timer"}) + rafPending

\* C19: in every reachable state at most one callback of the detection loop
\* (a runDetection timer or a detectFaces animation frame) is pending.
C19_AtMostOneLoopCallback == PendingLoopCallbacks <= 1

\* the invocation at position k of cfCalls is the one that ran in this step:
\* it finished, or it moved on to its next await
CfCallActed(k) ==
  /\ k \in 1..Len(cfCalls)
  /\ \/ cfCalls' = RemoveAt(cfCalls, k)
     \/ /\ Len(cfCalls') = Len(cfCalls)
        /\ cfCalls'[k] # cfCalls[k]

\* C20: stored results are applied in the order the cycles were started:
\* the cycle that stores predictions (137) and the cycle that stores
\* croppedFaces (172) is the one started last, and when a cycle completes
\* croppedFaces and predictions both stem from it.
C20_ResultsInStartOrder ==
  /\ [][cfLastOp' = "blazefaceResolved"
          => \E k \in 1..Len(cfCalls) : CfCallActed(k) /\ cfCalls[k].latest]_vars
  /\ [][(cfLastOp' \in {"blazefaceResolved", "landmarkResolved"}
           /\ Len(cfCalls') < Len(cfCalls))
          => /\ \E k \in 1..Len(cfCalls) : CfCallActed(k) /\ cfCalls[k].latest
             /\ ImagesOf(croppedFaces') = CropsOf(cfPredictions')]_vars

\* C21: whenever no detection cycle is in flight, croppedFaces has as many
\* entries as predictions: one cropped face per stored detection.
C21_OneCropPerDetection ==
  cfCalls = <<>> => Len(croppedFaces) = Len(cfPredictions)

\* C22: error, once set, is cleared only by a startCamera whose getUserMedia
\* is granted; stopCamera and successful detection cycles leave it as it
\* is, so an error set while streaming stays set for the rest of that
\* streaming session.
C22_ErrorClearedOnlyByGrantedStart ==
  /\ [][(error # NULL /\ error' = NULL) => lastOp' = "granted"]_vars
  /\ [][lastOp' \in {"stopCamera", "resolved", "raf_resolved"} => error' = error]_vars
  /\ [][(isStreaming /\ isStreaming' /\ error # NULL) => error' # NULL]_vars

====
